---- MODULE Spec2Model ----
(***************************************************************************)
(* A model of the Treasury Package document generator (generator.py).      *)
(* Strings are TLA+ strings; a replacement map (a Python dict, which keeps *)
(* insertion order) is a sequence of <<key, value>> pairs with distinct    *)
(* keys.                                                                   *)
(***************************************************************************)
EXTENDS Integers, Sequences, FiniteSets, TLC

VARIABLES
    pc,            \* position of the modelled call
    customer_data, \* the customer record: a function from the names of the
                   \* fields that are present to their values
    replacements,  \* the replacement map in use
    content,       \* replace_text_in_file: the text handed in
    sorted,        \* replace_text_in_file: sorted_items
    idx,           \* replace_text_in_file: the place in sorted_items of the
                   \* item the loop is at
    result,        \* replace_text_in_file: result
    calls,         \* number of replace_text_in_file calls made so far
    previous,      \* history: the text the call before this one was given
    marks,         \* history: per character of result, -p = the character at
                   \* place p of content, k > 0 = written by item k of
                   \* sorted_items
    rescanned,     \* history: some applied key matched characters that an
                   \* earlier key had written
    applied,       \* history: the places in sorted_items of the items applied
    date_str,      \* format_date_written: its argument
    num,           \* number_to_words: its argument
    formatted,     \* what the formatter returned
    raised_by,     \* the call whose exception left the entry point ("" if none)
    entry_point,   \* the method called: generate_package or generate_full_package
    output_dir,    \* its output_dir argument
    listing,       \* the template directory: whether it exists and the names
                   \* os.listdir returns, in the order it returns them
    fs,            \* the files on disk: path |-> <<kind, name of the template>>
    templates,     \* generate_package: templates
    template_idx,  \* generate_package: the place in templates of template_name
    output_path,   \* generate_package: output_path
    generated_files, \* generate_package: generated_files
    errors,        \* generate_package: errors
    scratch,       \* the scratch directories that exist, named by the place
                   \* of the template they were made for
    attempts,      \* history: the calls of process_docx_xml made and how they ended
    docx_idx,      \* convert_all_to_pdf: the place in docx_files of docx_path
    pdf_files,     \* convert_all_to_pdf: pdf_files
    conversions,   \* history: how the converter ended on each docx_path so far
    ran,           \* history: the steps after the conversion that were run
    package_result, \* the dict handed back to the caller
    name_args,     \* generate_all_name_variations / get_flat_variations: the
                   \* arguments first, middle, last, suffix
    variations,    \* generate_all_name_variations: what it returned, its
                   \* categories in order, each a sequence of <<key, value>>
    flat           \* get_flat_variations: what it returned

engine == <<content, sorted, idx, result, calls, previous, marks, rescanned, applied>>
formatter == <<date_str, num, formatted>>

package == <<entry_point, output_dir, listing, fs, templates, template_idx, output_path,
             generated_files, errors, scratch, attempts, docx_idx, pdf_files, conversions,
             ran, package_result>>

namer == <<name_args, variations, flat>>

vars == <<pc, raised_by, customer_data, replacements, engine, formatter, package, namer>>

(***************************************************************************)
(* Python str primitives.                                                  *)
(***************************************************************************)

\* s[i : i + len(old)] == old, positions counted from 1
StartsAt(s, i, old) ==
    /\ i + Len(old) - 1 <= Len(s)
    /\ SubSeq(s, i, i + Len(old) - 1) = old

\* Whether old (not empty) occurs in s
Occurs(s, old) == \E p \in 1..Len(s) : StartsAt(s, p, old)

\* The places where str.replace finds old (not empty) in s from place i on: it
\* scans from the left and resumes after each occurrence, so the occurrences
\* it replaces do not overlap.
RECURSIVE OccurrencesFrom(_, _, _)
OccurrencesFrom(s, old, i) ==
    LET found == {p \in i..(Len(s) - Len(old) + 1) : StartsAt(s, p, old)}
    IN  IF found = {} THEN {}
        ELSE LET p == CHOOSE q \in found : \A r \in found : q <= r
             IN  {p} \cup OccurrencesFrom(s, old, p + Len(old))

\* Only the leftmost occurrence, as str.replace(old, new, 1) finds it.
FirstOccurrence(s, old) ==
    LET all == OccurrencesFrom(s, old, 1)
    IN  {i \in all : \A k \in all : i <= k}

Occurrences(s, old) == OccurrencesFrom(s, old, 1)

\* What the result holds for place i of s: new where an occurrence starts,
\* nothing for the rest of the occurrence, the character elsewhere.
Piece(s, starts, n, new, i) ==
    IF i \in starts THEN new
    ELSE IF \E p \in starts : p < i /\ i < p + n THEN ""
    ELSE SubSeq(s, i, i)

\* s[lo..hi] with new in place of the n characters at each place of starts
\* (the pieces are joined by halves, which keeps the evaluation shallow)
RECURSIVE Rebuild(_, _, _, _, _, _)
Rebuild(s, starts, n, new, lo, hi) ==
    IF lo > hi THEN ""
    ELSE IF lo = hi THEN Piece(s, starts, n, new, lo)
    ELSE LET mid == (lo + hi) \div 2
         IN  Rebuild(s, starts, n, new, lo, mid) \o Rebuild(s, starts, n, new, mid + 1, hi)

RECURSIVE Interleave(_, _, _)
Interleave(s, new, i) ==
    IF i > Len(s) THEN new
    ELSE new \o SubSeq(s, i, i) \o Interleave(s, new, i + 1)

\* str.replace(old, new): every non-overlapping occurrence, scanning left to
\* right; an empty old inserts new before every character and at the end.
str_replace(s, old, new) ==
    IF old = "" THEN Interleave(s, new, 1)
    ELSE IF ~Occurs(s, old) THEN s
    ELSE Rebuild(s, Occurrences(s, old), Len(old), new, 1, Len(s))

(***************************************************************************)
(* Integers.  A Python int is unbounded; it is kept as its base-1000       *)
(* groups, least significant first, without leading zero groups, so that   *)
(* 100000000 is <<0, 0, 100>> and 0 is <<>>.                               *)
(***************************************************************************)

DIGITS == "0123456789"

Digit(d) == SubSeq(DIGITS, d + 1, d + 1)

IsDigit(c) == \E d \in 0..9 : Digit(d) = c

DigitVal(c) == CHOOSE d \in 0..9 : Digit(d) = c

RECURSIVE IntToStr(_)
IntToStr(n) == IF n < 10 THEN Digit(n) ELSE IntToStr(n \div 10) \o Digit(n % 10)

RECURSIVE StrToNat(_)
StrToNat(s) ==
    IF s = "" THEN 0
    ELSE 10 * StrToNat(SubSeq(s, 1, Len(s) - 1)) + DigitVal(SubSeq(s, Len(s), Len(s)))

RECURSIVE Canon(_)
Canon(groups) ==
    IF groups # <<>> /\ groups[Len(groups)] = 0
    THEN Canon(SubSeq(groups, 1, Len(groups) - 1))
    ELSE groups

Group(n, i) == IF i <= Len(n) THEN n[i] ELSE 0

\* n // 1_000_000_000, as an integer; every quotient of 1000000 or more is
\* reported as 1000000 (the callers only tell it from the values below 2000).
Billions(n) ==
    IF Len(n) > 5 THEN 1000000 ELSE Group(n, 4) + 1000 * Group(n, 5)

\* n * 1000
Times1000(n) == IF n = <<>> THEN <<>> ELSE <<0>> \o n

(***************************************************************************)
(* Formatter                                                               *)
(***************************************************************************)

ones == <<"", "ONE", "TWO", "THREE", "FOUR", "FIVE", "SIX", "SEVEN", "EIGHT", "NINE",
          "TEN", "ELEVEN", "TWELVE", "THIRTEEN", "FOURTEEN", "FIFTEEN", "SIXTEEN",
          "SEVENTEEN", "EIGHTEEN", "NINETEEN">>

tens == <<"", "", "TWENTY", "THIRTY", "FORTY", "FIFTY", "SIXTY", "SEVENTY", "EIGHTY", "NINETY">>

\* _digit_words raises IndexError when ones[n // 100] is out of range.
digit_words_raises(n) == n >= 100 /\ n \div 100 >= Len(ones)

RECURSIVE digit_words(_)
digit_words(n) ==
    IF n < 20 THEN ones[n + 1]
    ELSE IF n < 100
         THEN tens[(n \div 10) + 1] \o (IF n % 10 # 0 THEN "-" \o ones[(n % 10) + 1] ELSE "")
         ELSE ones[(n \div 100) + 1] \o " HUNDRED"
                  \o (IF n % 100 # 0 THEN " " \o digit_words(n % 100) ELSE "")

RECURSIVE Join(_, _)
Join(sep, parts) ==
    IF parts = <<>> THEN ""
    ELSE IF Len(parts) = 1 THEN parts[1]
         ELSE parts[1] \o sep \o Join(sep, Tail(parts))

number_to_words_raises(n) == Billions(n) # 0 /\ digit_words_raises(Billions(n))

\* The magnitude words of num, most significant first.
MagnitudeWords(n) ==
    LET billions == Billions(n)
        millions == Group(n, 3)
        thousands == Group(n, 2)
    IN  (IF billions # 0 THEN <<digit_words(billions) \o " BILLION">> ELSE <<>>)
        \o (IF millions # 0 THEN <<digit_words(millions) \o " MILLION">> ELSE <<>>)
        \o (IF thousands # 0 THEN <<digit_words(thousands) \o " THOUSAND">> ELSE <<>>)

\* The return statement without its fallback: " ".join(words).
JoinWordsOnly(words) == Join(" ", words)

\* " ".join(words) if words else "ZERO"
JoinWords(words) == IF words # <<>> THEN Join(" ", words) ELSE "ZERO"

number_to_words(n) == JoinWords(MagnitudeWords(n))

Pad3(g) == IF g < 10 THEN "00" \o IntToStr(g) ELSE IF g < 100 THEN "0" \o IntToStr(g) ELSE IntToStr(g)

RECURSIVE CommaGroups(_)
CommaGroups(n) ==
    IF n = <<>> THEN "0"
    ELSE IF Len(n) = 1 THEN IntToStr(n[1])
         ELSE CommaGroups(Tail(n)) \o "," \o Pad3(n[1])

\* f"${n:,.2f}" for an int n >= 0 (exact below 2**53)
format_money(n) == "$" \o CommaGroups(n) \o ".00"

MonthNames == <<"January", "February", "March", "April", "May", "June", "July",
                "August", "September", "October", "November", "December">>

IsLeap(y) == (y % 4 = 0 /\ y % 100 # 0) \/ y % 400 = 0

DaysInMonth(y, m) ==
    IF m = 2 THEN (IF IsLeap(y) THEN 29 ELSE 28)
    ELSE IF m \in {4, 6, 9, 11} THEN 30 ELSE 31

AllDigits(s) == \A i \in 1..Len(s) : IsDigit(SubSeq(s, i, i))

\* The directive %Y takes exactly four digits.
MatchesY(s) == Len(s) = 4 /\ AllDigits(s)

\* %m takes 1[0-2], 0[1-9] or [1-9].
MatchesM(s) == Len(s) \in {1, 2} /\ AllDigits(s) /\ StrToNat(s) \in 1..12

\* %d takes 3[01], [12]\d, 0[1-9], [1-9] or a space and [1-9].
MatchesD(s) ==
    \/ Len(s) \in {1, 2} /\ AllDigits(s) /\ StrToNat(s) \in 1..31
    \/ Len(s) = 2 /\ SubSeq(s, 1, 1) = " " /\ IsDigit(SubSeq(s, 2, 2)) /\ SubSeq(s, 2, 2) # "0"

DayVal(s) == IF SubSeq(s, 1, 1) = " " THEN StrToNat(SubSeq(s, 2, 2)) ELSE StrToNat(s)

\* The places of "-" in s.
Dashes(s) == {i \in 1..Len(s) : SubSeq(s, i, i) = "-"}

\* datetime.strptime(date_str, "%Y-%m-%d"): the date as <<year, month, day>>,
\* or <<>> where strptime raises ValueError (no match, unconverted data, or a
\* day or year out of range).
strptime(s) ==
    IF Cardinality(Dashes(s)) # 2 THEN <<>>
    ELSE LET i == CHOOSE a \in Dashes(s) : \A b \in Dashes(s) : a <= b
             j == CHOOSE a \in Dashes(s) : \A b \in Dashes(s) : a >= b
             ys == SubSeq(s, 1, i - 1)
             ms == SubSeq(s, i + 1, j - 1)
             ds == SubSeq(s, j + 1, Len(s))
         IN  IF ~(MatchesY(ys) /\ MatchesM(ms) /\ MatchesD(ds)) THEN <<>>
             ELSE LET y == StrToNat(ys)
                      m == StrToNat(ms)
                      d == DayVal(ds)
                  IN  IF y < 1 \/ d > DaysInMonth(y, m) THEN <<>> ELSE <<y, m, d>>

\* The suffix rule without the exception for 11..13.
OrdinalSuffixNoTeens(day) ==
    IF day % 10 = 1 THEN "st" ELSE IF day % 10 = 2 THEN "nd"
    ELSE IF day % 10 = 3 THEN "rd" ELSE "th"

\* 'th' if 11 <= day <= 13 else {1:'st', 2:'nd', 3:'rd'}.get(day % 10, 'th')
OrdinalSuffix(day) ==
    IF 11 <= day /\ day <= 13 THEN "th"
    ELSE IF day % 10 = 1 THEN "st" ELSE IF day % 10 = 2 THEN "nd"
    ELSE IF day % 10 = 3 THEN "rd" ELSE "th"

\* dt.strftime(f"%B {day}{suffix}, %Y"); %Y of the C library does not pad.
format_date_written(s) ==
    IF s = "" THEN ""
    ELSE LET dt == strptime(s)
         IN  IF dt = <<>> THEN s
             ELSE MonthNames[dt[2]] \o " " \o IntToStr(dt[3]) \o OrdinalSuffix(dt[3])
                      \o ", " \o IntToStr(dt[1])

(***************************************************************************)
(* replace_text_in_file                                                    *)
(***************************************************************************)

\* The place of item i in the insertion order itself: no sort.
RankUnsorted(items, i) == i

\* The place of item i once sorted: list.sort is stable, and with reverse=True
\* equal keys keep their order, so an item comes after every item with a
\* longer key and after the earlier items with a key as long.
Rank(items, i) ==
    Cardinality({j \in 1..Len(items) :
                    \/ Len(items[j][1]) > Len(items[i][1])
                    \/ Len(items[j][1]) = Len(items[i][1]) /\ j <= i})

\* sorted(replacements.items(), key=lambda x: len(x[0]), reverse=True)
sorted_items(items) ==
    LET place == <<>> \o [i \in 1..Len(items) |-> Rank(items, i)]
    IN  [k \in 1..Len(items) |-> items[CHOOSE i \in 1..Len(items) : place[i] = k]]

\* The guard without its second conjunct: an empty value is applied too.
TruthyKeyOnly(old, new) == old # ""

\* if old and new
Truthy(old, new) == old # "" /\ new # ""

\* The body of the loop for one item
ApplyItem(res, item) ==
    IF Truthy(item[1], item[2]) THEN str_replace(res, item[1], item[2]) ELSE res

\* The loop over items lo..hi, in order (run by halves, which keeps the
\* evaluation shallow)
RECURSIVE ApplyItems(_, _, _, _)
ApplyItems(res, items, lo, hi) ==
    IF lo > hi THEN res
    ELSE IF lo = hi THEN ApplyItem(res, items[lo])
    ELSE LET mid == (lo + hi) \div 2
         IN  ApplyItems(ApplyItems(res, items, lo, mid), items, mid + 1, hi)

replace_text_in_file(text, repl) ==
    LET items == sorted_items(repl) IN ApplyItems(text, items, 1, Len(items))

(***************************************************************************)
(* The same loop with the origin of every character recorded.              *)
(***************************************************************************)

MarkPiece(mk, starts, n, new_marks, i) ==
    IF i \in starts THEN new_marks
    ELSE IF \E p \in starts : p < i /\ i < p + n THEN <<>>
    ELSE <<mk[i]>>

\* The marks of the text that Rebuild returns
RECURSIVE RebuildMarks(_, _, _, _, _, _)
RebuildMarks(mk, starts, n, new_marks, lo, hi) ==
    IF lo > hi THEN <<>>
    ELSE IF lo = hi THEN MarkPiece(mk, starts, n, new_marks, lo)
    ELSE LET mid == (lo + hi) \div 2
         IN  RebuildMarks(mk, starts, n, new_marks, lo, mid)
                 \o RebuildMarks(mk, starts, n, new_marks, mid + 1, hi)

\* Some occurrence that is replaced holds a character an earlier item wrote
Hit(mk, starts, n) ==
    \E p \in starts : \E j \in p..(p + n - 1) : mk[j] > 0

TraceItem(st, item, tag) ==
    IF Truthy(item[1], item[2]) /\ item[1] # "" /\ Occurs(st.s, item[1])
    THEN LET starts == Occurrences(st.s, item[1])
         IN  [s     |-> str_replace(st.s, item[1], item[2]),
              marks |-> RebuildMarks(st.marks, starts, Len(item[1]),
                                     [j \in 1..Len(item[2]) |-> tag], 1, Len(st.marks)),
              hit   |-> st.hit \/ Hit(st.marks, starts, Len(item[1]))]
    ELSE st

(***************************************************************************)
(* prepare_replacements                                                    *)
(***************************************************************************)

NoFields == [f \in {} |-> ""]

\* No call of the engine yet
EngineIdle ==
    /\ content = ""
    /\ sorted = <<>>
    /\ idx = 0
    /\ result = ""
    /\ calls = 0
    /\ previous = ""
    /\ marks = <<>>
    /\ rescanned = FALSE
    /\ applied = {}

\* No call of the formatter yet
FormatterIdle ==
    /\ date_str = ""
    /\ num = <<>>
    /\ formatted = ""

\* No call of generate_package or generate_full_package
PackageIdle ==
    /\ raised_by = ""
    /\ entry_point = ""
    /\ output_dir = ""
    /\ listing = [exists |-> FALSE, names |-> <<>>]
    /\ fs = <<>>
    /\ templates = <<>>
    /\ template_idx = 0
    /\ output_path = ""
    /\ generated_files = <<>>
    /\ errors = <<>>
    /\ scratch = {}
    /\ attempts = <<>>
    /\ docx_idx = 0
    /\ pdf_files = <<>>
    /\ conversions = <<>>
    /\ ran = {}
    /\ package_result = <<>>

NoNames == [first |-> "", middle |-> "", last |-> "", suffix |-> ""]

\* No call of name_variations.py
NamerIdle ==
    /\ name_args = NoNames
    /\ variations = <<>>
    /\ flat = <<>>

\* data.get(field, default)
Get(data, field, default) == IF field \in DOMAIN data THEN data[field] ELSE default

LOWER == "abcdefghijklmnopqrstuvwxyz"
UPPER == "ABCDEFGHIJKLMNOPQRSTUVWXYZ"

UpperChar(c) ==
    IF \E i \in 1..26 : SubSeq(LOWER, i, i) = c
    THEN LET i == CHOOSE k \in 1..26 : SubSeq(LOWER, k, k) = c IN SubSeq(UPPER, i, i)
    ELSE c

\* s.upper()
RECURSIVE Upper(_)
Upper(s) ==
    IF s = "" THEN ""
    ELSE Upper(SubSeq(s, 1, Len(s) - 1)) \o UpperChar(SubSeq(s, Len(s), Len(s)))

LowerChar(c) ==
    IF \E i \in 1..26 : SubSeq(UPPER, i, i) = c
    THEN LET i == CHOOSE k \in 1..26 : SubSeq(UPPER, k, k) = c IN SubSeq(LOWER, i, i)
    ELSE c

\* s.lower()
RECURSIVE Lower(_)
Lower(s) ==
    IF s = "" THEN ""
    ELSE Lower(SubSeq(s, 1, Len(s) - 1)) \o LowerChar(SubSeq(s, Len(s), Len(s)))

\* s[:n]
Prefix(s, n) == IF Len(s) <= n THEN s ELSE SubSeq(s, 1, n)

\* s.strip()
RECURSIVE Strip(_)
Strip(s) ==
    IF s = "" THEN ""
    ELSE IF SubSeq(s, 1, 1) = " " THEN Strip(SubSeq(s, 2, Len(s)))
    ELSE IF SubSeq(s, Len(s), Len(s)) = " " THEN Strip(SubSeq(s, 1, Len(s) - 1))
    ELSE s

\* The digits of an int literal once stripped of blanks and sign: digits, with
\* single underscores between them.
Unsigned(s) ==
    LET t == Strip(s)
    IN  IF t # "" /\ SubSeq(t, 1, 1) \in {"+", "-"} THEN SubSeq(t, 2, Len(t)) ELSE t

IsIntLiteral(s) ==
    LET u == Unsigned(s)
    IN  /\ u # ""
        /\ \A i \in 1..Len(u) : IsDigit(SubSeq(u, i, i)) \/ SubSeq(u, i, i) = "_"
        /\ IsDigit(SubSeq(u, 1, 1))
        /\ IsDigit(SubSeq(u, Len(u), Len(u)))
        /\ \A i \in 1..(Len(u) - 1) : ~(SubSeq(u, i, i) = "_" /\ SubSeq(u, i + 1, i + 1) = "_")

RECURSIVE GroupsOf(_)
GroupsOf(digits) ==
    IF digits = "" THEN <<>>
    ELSE IF Len(digits) <= 3 THEN <<StrToNat(digits)>>
    ELSE <<StrToNat(SubSeq(digits, Len(digits) - 2, Len(digits)))>>
             \o GroupsOf(SubSeq(digits, 1, Len(digits) - 3))

\* int(s) of a literal without a minus sign
IntOf(s) == Canon(GroupsOf(str_replace(Unsigned(s), "_", "")))

DefaultLienAmount == <<0, 0, 100>>

\* int(data.get('lienAmount', 100000000)) raises ValueError
lien_amount_raises(data) ==
    "lienAmount" \in DOMAIN data /\ ~IsIntLiteral(data["lienAmount"])

lien_amount_of(data) ==
    IF "lienAmount" \in DOMAIN data THEN IntOf(data["lienAmount"]) ELSE DefaultLienAmount

prepare_replacements_raises(data) ==
    \/ lien_amount_raises(data)
    \/ number_to_words_raises(lien_amount_of(data))
    \/ number_to_words_raises(Times1000(lien_amount_of(data)))

prepare_replacements(data) ==
    LET first == Get(data, "firstName", "")
        middle == Get(data, "middleName", "")
        last == Get(data, "lastName", "")
        full_name_upper ==
            IF middle # "" THEN Upper(first \o " " \o middle \o " " \o last)
            ELSE Upper(first \o " " \o last)
        full_name_styled ==
            IF middle # "" THEN first \o "-" \o middle \o ": " \o last
            ELSE first \o ": " \o last
        ssn == Get(data, "ssn", "")
        ssn_no_dashes == str_replace(ssn, "-", "")
        lien_amount == lien_amount_of(data)
        lien_formatted == format_money(lien_amount)
        lien_words == number_to_words(lien_amount)
        doc_date == Get(data, "documentDate", "")
        doc_date_written == format_date_written(doc_date)
        birth_date == Get(data, "birthDate", "")
        birth_date_written == format_date_written(birth_date)
        street == Get(data, "streetAddress", "")
        city == Get(data, "city", "")
        state == Get(data, "state", "")
        zip == Get(data, "zipCode", "")
        county == Get(data, "county", "")
        ucc == Get(data, "uccFilingNumber", "")
        ucc_state == Get(data, "uccFilingState", "")
        mail == Get(data, "registeredMailNumber", "")
        routing == Get(data, "dtcRoutingNumber", "")
        account == Get(data, "dtcAccountNumber", "")
        cert == Get(data, "birthCertNumber", "")
        last3 == IF last # "" THEN Upper(Prefix(last, 3)) ELSE "XXX"
    IN  <<
        <<"THOMAS KALLEN CLAYCOMB", full_name_upper>>,
        <<"THOMAS K CLAYCOMB", full_name_upper>>,
        <<"THOMAS CLAYCOMB", Upper(first \o " " \o last)>>,
        <<"T KALLEN CLAYCOMB",
          IF middle # "" THEN Upper(Prefix(first, 1) \o " " \o middle \o " " \o last)
          ELSE full_name_upper>>,
        <<"TKC",
          IF first # "" /\ last # ""
          THEN Upper(Prefix(first, 1) \o Prefix(middle, 1) \o Prefix(last, 1))
          ELSE "">>,
        <<"Thomas-Kallen: Claycomb", full_name_styled>>,
        <<"Thomas-Kallen: CLaycomb", full_name_styled>>,
        <<"Thomas K. Claycomb",
          str_replace(Strip(first \o " " \o Prefix(middle, 1) \o ". " \o last), " .", "")>>,
        <<"Thomas Kallen Claycomb",
          IF middle # "" THEN first \o " " \o middle \o " " \o last ELSE first \o " " \o last>>,
        <<"493-74-8357", ssn>>,
        <<"493748357", ssn_no_dashes>>,
        <<"**493-74-8357**", "**" \o ssn \o "**">>,
        <<"**493748357**", "**" \o ssn_no_dashes \o "**">>,
        <<"#493-74-8357", "#" \o ssn>>,
        <<"#493748357", "#" \o ssn_no_dashes>>,
        <<"6316 East 113th Avenue", street>>,
        <<"c/o 6316 East 113th Avenue", "c/o " \o street>>,
        <<"6316 EAST 113TH AVENUE", Upper(street)>>,
        <<"Temple Terrace", city>>,
        <<"TEMPLE TERRACE", Upper(city)>>,
        <<"Florida", state>>,
        <<"FLORIDA", Upper(state)>>,
        <<"Florida Republic", state \o " Republic">>,
        <<"Florida State", state \o " State">>,
        <<"33617", zip>>,
        <<"[33617]", "[" \o zip \o "]">>,
        <<"near [33617]", "near [" \o zip \o "]">>,
        <<"Hillsborough", county>>,
        <<"HILLSBOROUGH", Upper(county)>>,
        <<"Hillsborough County", county \o " County">>,
        <<"HILLSBOROUGH COUNTY", Upper(county) \o " COUNTY">>,
        <<"XXXXXXXXXXXXX", ucc>>,
        <<"xxxxxxxxxxxxxxxxx", ucc>>,
        <<"XXXXXXXXXXXXXX", ucc>>,
        <<"numberXXXXXXXXXXX", "number" \o ucc>>,
        <<"New York", ucc_state>>,
        <<"NEW YORK", Upper(ucc_state)>>,
        <<"RF737860948US", mail>>,
        <<"**RF737860948US**", "**" \o mail \o "**">>,
        <<"RF737860934US", mail>>,
        <<"0810-0004-5", routing>>,
        <<"????????", routing>>,
        <<"053045139", account>>,
        <<"$100,000,000.00", lien_formatted>>,
        <<"\\$100,000,000.00", lien_formatted>>,
        <<"ONE HUNDRED MILLION", lien_words>>,
        <<"one hundred million", Lower(lien_words)>>,
        <<"$100,000,000,000.00", format_money(Times1000(lien_amount))>>,
        <<"ONE HUNDRED BILLION", number_to_words(Times1000(lien_amount))>>,
        <<"April 7, 2025", doc_date_written>>,
        <<"April 7th, 2025", doc_date_written>>,
        <<"March 25, 2025", doc_date_written>>,
        <<"March 9, 2025", doc_date_written>>,
        <<"4/7/2025", doc_date>>,
        <<"October 12th 1962", birth_date_written>>,
        <<"October 12th, 1962", birth_date_written>>,
        <<"124-62-071026", cert>>,
        <<"109-71-015876", cert>>,
        <<"109-1971-015876", cert>>,
        <<"TKC020371ANP", last3 \o "020371ANP">>,
        <<"TKC-101362HHIA", last3 \o "-101362HHIA">>,
        <<"TKC-101262CLC", last3 \o "-101262CLC">>,
        <<"TKC-101262-CAD", last3 \o "-101262-CAD">>,
        <<"101262HHIA", "101262HHIA">>,
        <<"JAD-SA020371", last3 \o "-SA020371">>,
        <<"TKC -- 10121962", last3 \o " -- " \o str_replace(birth_date, "-", "")>>
        >>

(***************************************************************************)
(* The formatter called on a date string or on an integer.                 *)
(***************************************************************************)

Pad2(n) == IF n < 10 THEN "0" \o IntToStr(n) ELSE IntToStr(n)

YearStrs == {"0000", "1985", "2024", "2025"}
MonthStrs == {Pad2(m) : m \in 0..13} \cup {"1", "9"}
DayStrs == {Pad2(d) : d \in 0..32} \cup {IntToStr(d) : d \in 1..9} \cup {" 5"}

NotDates ==
    {"not-a-date", "2025-01-15 ", " 2025-01-15", "2025/01/15", "20250115",
     "15-01-2025", "2025-01", "2025-01-15-", "985-01-01", "2025-001-01"}

DatePool ==
    {""} \cup NotDates
        \cup {y \o "-" \o m \o "-" \o d : y \in YearStrs, m \in MonthStrs, d \in DayStrs}

SegPool == {0, 1, 12, 20, 21, 100, 101, 999}

\* Integers of [0, 999_999_999_999], and two above it.
NumPool ==
    {Canon(<<r, t, m, b>>) : r \in SegPool, t \in SegPool, m \in SegPool, b \in SegPool}
        \cup {<<0, 0, 0, 0, 1>>, <<0, 0, 0, 0, 2>>}

InitFmt ==
    /\ \/ pc = "call_date" /\ date_str \in DatePool /\ num = <<>>
       \/ pc = "call_words" /\ date_str = "" /\ num \in NumPool
    /\ formatted = ""
    /\ customer_data = NoFields
    /\ replacements = <<>>
    /\ EngineIdle
    /\ NamerIdle
    /\ PackageIdle

FormatDateWrittenCall ==
    /\ pc = "call_date"
    /\ formatted' = format_date_written(date_str)
    /\ pc' = "returned_date"
    /\ UNCHANGED <<raised_by, package, namer, customer_data, replacements, engine, date_str, num>>

NumberToWordsCall ==
    /\ pc = "call_words"
    /\ IF number_to_words_raises(num)
       THEN pc' = "raised_words" /\ formatted' = ""
       ELSE pc' = "returned_words" /\ formatted' = number_to_words(num)
    /\ UNCHANGED <<raised_by, package, namer, customer_data, replacements, engine, date_str, num>>

NextFmt == FormatDateWrittenCall \/ NumberToWordsCall

SpecFmt == InitFmt /\ [][NextFmt]_vars

(***************************************************************************)
(* Claims about the formatter (checked under SpecFmt).                     *)
(***************************************************************************)

\* num is in [0, 999_999_999_999]
InRange(n) == Len(n) <= 4

\* num >= 1000
AtLeast1000(n) == Len(n) >= 2

\* C8 as stated: for n in [0, 999_999_999_999], number_to_words(n) is
\* non-empty if and only if n >= 1000, and number_to_words(0) = "ZERO".
C8_NonEmptyIffThousand ==
    (pc = "returned_words" /\ InRange(num))
        => /\ (formatted # "" <=> AtLeast1000(num))
           /\ (num = <<>> => formatted = "ZERO")

\* C8 amended: for n in [0, 999_999_999_999], number_to_words(n) is never
\* empty, it is "ZERO" if and only if n < 1000, and number_to_words(0) = "ZERO".
C8_ZeroIffBelowThousand ==
    /\ (pc = "call_words" /\ InRange(num)) => ~number_to_words_raises(num)
    /\ (pc = "returned_words" /\ InRange(num))
        => /\ formatted # ""
           /\ (formatted = "ZERO" <=> ~AtLeast1000(num))
           /\ (num = <<>> => formatted = "ZERO")

C8_Witness ==
    /\ pc = "returned_words"
    /\ num = <<0, 0, 100>>
    /\ formatted = "ONE HUNDRED MILLION"

ClaimSuffix(d) ==
    IF d \in 11..13 THEN "th"
    ELSE CASE d % 10 = 1 -> "st"
           [] d % 10 = 2 -> "nd"
           [] d % 10 = 3 -> "rd"
           [] OTHER -> "th"

ClaimYears == {1985, 2024, 2025}

\* Every valid YYYY-MM-DD date of the years above, with its written form.
ValidWritten ==
    {<<IntToStr(t[1]) \o "-" \o Pad2(t[2]) \o "-" \o Pad2(t[3]),
       MonthNames[t[2]] \o " " \o IntToStr(t[3]) \o ClaimSuffix(t[3]) \o ", " \o IntToStr(t[1])>> :
        t \in {u \in ClaimYears \X (1..12) \X (1..31) : u[3] <= DaysInMonth(u[1], u[2])}}

\* The inputs that are no date: not of the form, or a year, month or day out
\* of range.
Unparsable ==
    NotDates
        \cup {t[1] \o "-" \o t[2] \o "-" \o t[3] :
                t \in {u \in YearStrs \X MonthStrs \X DayStrs :
                        \/ u[1] = "0000"
                        \/ StrToNat(u[2]) \notin 1..12
                        \/ DayVal(u[3]) < 1
                        \/ DayVal(u[3]) > DaysInMonth(StrToNat(u[1]), StrToNat(u[2]))}}

\* C9: format_date_written returns '<Month> <d><suffix>, <year>' on a valid
\* YYYY-MM-DD date, with 'th' for 11..13 and otherwise 'st', 'nd', 'rd', 'th'
\* by last digit; the empty string on the empty string; the input unchanged
\* on an unparsable input; and it never raises.
C9_DateWritten ==
    /\ pc \in {"call_date", "returned_date", "call_words", "returned_words", "raised_words"}
    /\ pc = "returned_date"
        => /\ date_str = "" => formatted = ""
           /\ \A v \in ValidWritten : date_str = v[1] => formatted = v[2]
           /\ date_str \in Unparsable => formatted = date_str

C9_Witness ==
    /\ pc = "returned_date"
    /\ date_str = "2025-01-11"
    /\ formatted = "January 11th, 2025"

(***************************************************************************)
(* Inputs of the substitution engine.                                      *)
(***************************************************************************)

MaxTextLen == 3
MaxEntries == 2

TextAlphabet == {"A", "B", "C"}
KeyPool == {"", "A", "AB", "BC", "ABC"}
ValuePool == {"", "X", "Y", "A", "AB"}

RECURSIVE StrsOfLen(_, _)
StrsOfLen(alphabet, n) ==
    IF n = 0 THEN {""}
    ELSE {s \o c : s \in StrsOfLen(alphabet, n - 1), c \in alphabet}

Texts == UNION {StrsOfLen(TextAlphabet, n) : n \in 0..MaxTextLen}

MapsOfLen(n) ==
    {m \in [1..n -> KeyPool \X ValuePool] :
        \A i, j \in 1..n : i < j => m[i][1] # m[j][1]}

Maps == UNION {MapsOfLen(n) : n \in 0..MaxEntries}

(***************************************************************************)
(* The substitution engine called on a text and a map, and called again    *)
(* on its own result.                                                      *)
(***************************************************************************)

InitSubst ==
    /\ pc = "call"
    /\ content \in Texts
    /\ replacements \in Maps
    /\ sorted = <<>>
    /\ idx = 0
    /\ result = ""
    /\ calls = 0
    /\ previous = ""
    /\ marks = <<>>
    /\ rescanned = FALSE
    /\ applied = {}
    /\ customer_data = NoFields
    /\ FormatterIdle
    /\ NamerIdle
    /\ PackageIdle

\* replace_text_in_file(content, replacements) up to the loop:
\* result = content; sorted_items = sorted(...)
ReplaceEnter ==
    /\ pc = "call"
    /\ result' = content
    /\ sorted' = sorted_items(replacements)
    /\ idx' = 1
    /\ calls' = calls + 1
    /\ marks' = [j \in 1..Len(content) |-> 0 - j]
    /\ rescanned' = FALSE
    /\ applied' = {}
    /\ pc' = "loop"
    /\ UNCHANGED <<raised_by, package, namer, customer_data, replacements, content, previous, formatter>>

\* One turn of the loop: for old, new in sorted_items
ReplaceLoop ==
    /\ pc = "loop"
    /\ idx <= Len(sorted)
    /\ LET st == TraceItem([s |-> result, marks |-> marks, hit |-> rescanned],
                           sorted[idx], idx)
       IN  /\ result' = ApplyItem(result, sorted[idx])
           /\ marks' = st.marks
           /\ rescanned' = st.hit
    /\ applied' = IF Truthy(sorted[idx][1], sorted[idx][2]) THEN applied \cup {idx} ELSE applied
    /\ idx' = idx + 1
    /\ UNCHANGED <<raised_by, package, pc, namer, customer_data, replacements, content, sorted, calls, previous, formatter>>

\* return result
ReplaceReturn ==
    /\ pc = "loop"
    /\ idx > Len(sorted)
    /\ pc' = "returned"
    /\ UNCHANGED <<raised_by, package, namer, customer_data, replacements, engine, formatter>>

\* The caller hands the returned text to the engine again, with the same map.
ReplaceAgain ==
    /\ pc = "returned"
    /\ calls = 1
    /\ content' = result
    /\ previous' = content
    /\ pc' = "call"
    /\ UNCHANGED <<raised_by, package, namer, customer_data, replacements, sorted, idx, result, calls, marks,
                   rescanned, applied, formatter>>

NextSubst == ReplaceEnter \/ ReplaceLoop \/ ReplaceReturn \/ ReplaceAgain

SpecSubst == InitSubst /\ [][NextSubst]_vars

(***************************************************************************)
(* Claims about the substitution engine (checked under SpecSubst).         *)
(***************************************************************************)

NonIncreasingKeyLen(items) ==
    \A i \in 1..(Len(items) - 1) : Len(items[i][1]) >= Len(items[i + 1][1])

ShortFirst == << <<"AB", "X">>, <<"ABC", "Y">> >>
LongFirst == << <<"ABC", "Y">>, <<"AB", "X">> >>

\* C2: the items are applied in non-increasing order of key length whatever
\* the insertion order of the map, and {"AB":"X", "ABC":"Y"} applied to "ABC"
\* gives "Y" for both insertion orders.
C2_LongestKeyFirst ==
    /\ NonIncreasingKeyLen(sorted_items(replacements))
    /\ (pc = "returned" /\ calls = 1 /\ content = "ABC"
            /\ replacements \in {ShortFirst, LongFirst})
        => result = "Y"

C2_Witness ==
    /\ pc = "returned" /\ calls = 1
    /\ content = "ABC" /\ replacements = ShortFirst
    /\ result = "Y"

\* C3: no key applied by replace_text_in_file matches characters that an
\* earlier key of the same call wrote: replacement text is never re-scanned.
C3_NeverRescanned == pc = "returned" => ~rescanned

Keys(repl) == {repl[i][1] : i \in 1..Len(repl)}
Values(repl) == {repl[i][2] : i \in 1..Len(repl)}
Chars(s) == {SubSeq(s, i, i) : i \in 1..Len(s)}

\* C4 as stated: when no replacement value equals a key of the map, applying
\* the map to the already substituted text changes nothing.
C4_Idempotent ==
    (pc = "returned" /\ calls = 2 /\ Values(replacements) \cap Keys(replacements) = {})
        => result = content

ValuesAvoidKeys(repl) ==
    \A v \in Values(repl), k \in Keys(repl) : Chars(v) \cap Chars(k) = {}

\* C4 amended: when no character of any replacement value occurs in any key
\* of the map, applying the map to the already substituted text changes
\* nothing.
C4_IdempotentDisjoint ==
    (pc = "returned" /\ calls = 2 /\ ValuesAvoidKeys(replacements))
        => result = content

C4_Witness ==
    /\ pc = "returned" /\ calls = 2
    /\ ValuesAvoidKeys(replacements)
    /\ previous # content
    /\ result = content

\* The occurrence of key at position p of the input text is in the result,
\* character for character.
Survives(mk, p, n) ==
    \E q \in 1..Len(mk) :
        /\ q + n - 1 <= Len(mk)
        /\ \A j \in 0..(n - 1) : mk[q + j] = 0 - (p + j)

\* C5 as stated: every occurrence in the input text of a key whose value is
\* empty is still in the result, untouched, whatever the other entries are.
C5_EmptyValueKeyUntouched ==
    (pc = "returned" /\ calls = 1)
        => \A i \in 1..Len(replacements) :
              (replacements[i][2] = "" /\ replacements[i][1] # "")
                  => \A p \in 1..Len(content) :
                        StartsAt(content, p, replacements[i][1])
                            => Survives(marks, p, Len(replacements[i][1]))

HasValue(entry) == entry[2] # ""

\* C5 amended: an entry whose value is empty is never applied: the result is
\* the one the map without its empty-value entries gives, and a map whose
\* values are all empty returns the text unchanged.
C5_EmptyValueNotApplied ==
    (pc = "returned" /\ calls = 1)
        => /\ result = replace_text_in_file(content, SelectSeq(replacements, HasValue))
           /\ (Values(replacements) \subseteq {""} => result = content)

C5_Witness ==
    /\ pc = "returned" /\ calls = 1
    /\ result # content
    /\ \E i \in 1..Len(replacements) :
          /\ replacements[i][2] = "" /\ replacements[i][1] # ""
          /\ \E p \in 1..Len(content) :
                /\ StartsAt(content, p, replacements[i][1])
                /\ Survives(marks, p, Len(replacements[i][1]))

(***************************************************************************)
(* The replacement map built from a customer record and applied to the     *)
(* text of a template part.                                                *)
(***************************************************************************)

\* The record of main()
Sample ==
    [firstName |-> "John", middleName |-> "Michael", lastName |-> "Smith",
     ssn |-> "123-45-6789", birthDate |-> "1985-06-15", birthState |-> "Texas",
     birthCertNumber |-> "124-85-061589", streetAddress |-> "456 Oak Lane",
     city |-> "Houston", county |-> "Harris", state |-> "Texas", zipCode |-> "77001",
     uccFilingNumber |-> "202512345678", uccFilingState |-> "New York",
     registeredMailNumber |-> "RF123456789US", dtcRoutingNumber |-> "0810-0001-2",
     dtcAccountNumber |-> "012345678", documentDate |-> "2025-01-15",
     lienAmount |-> "100000000"]

Without(data, field) == [f \in DOMAIN data \ {field} |-> data[f]]

With(data, field, value) ==
    [f \in DOMAIN data \cup {field} |-> IF f = field THEN value ELSE data[f]]

\* Values a questionnaire can hold in one field of the sample record
Overrides ==
    {<<"lienAmount", "abc">>, <<"lienAmount", "">>, <<"lienAmount", "1,000">>,
     <<"lienAmount", " 2500 ">>, <<"lienAmount", "1_000">>, <<"lienAmount", "0">>,
     <<"lienAmount", "999999999">>, <<"lienAmount", "2000000000">>,
     <<"firstName", "">>, <<"middleName", "">>, <<"lastName", "Florida">>,
     <<"city", "Florida">>, <<"state", "New York">>, <<"state", "Florida">>,
     <<"county", "">>, <<"documentDate", "not-a-date">>, <<"documentDate", "2025-04-07">>,
     <<"birthDate", "1962-10-12">>, <<"ssn", "493-74-8357">>}

Customers ==
    {Sample, NoFields}
        \cup {Without(Sample, f) : f \in DOMAIN Sample}
        \cup {With(Sample, o[1], o[2]) : o \in Overrides}
        \cup {With(NoFields, "lienAmount", "abc")}

MaxRepeats == 2

RECURSIVE Repeated(_, _)
Repeated(literal, n) == IF n = 0 THEN "" ELSE literal \o Repeated(literal, n - 1)

\* The texts made of one placeholder literal of the map, at most n times over
PlaceholderTexts(repl, n) ==
    {Repeated(repl[i][1], k) : i \in 1..Len(repl), k \in 0..n}

InitMap ==
    /\ pc = "prepare"
    /\ customer_data \in Customers
    /\ replacements = <<>>
    /\ EngineIdle
    /\ NamerIdle
    /\ FormatterIdle
    /\ PackageIdle

\* replacements = self.prepare_replacements(customer_data)
PrepareReplacementsCall ==
    /\ pc = "prepare"
    /\ IF prepare_replacements_raises(customer_data)
       THEN pc' = "raised" /\ raised_by' = "prepare_replacements" /\ UNCHANGED replacements
       ELSE /\ pc' = "prepared"
            /\ replacements' = prepare_replacements(customer_data)
            /\ UNCHANGED raised_by
    /\ UNCHANGED <<namer, customer_data, engine, formatter, package>>

\* process_docx_xml reads a part of a template: content = f.read()
ReadPart ==
    /\ pc = "prepared"
    /\ content' \in PlaceholderTexts(replacements, MaxRepeats)
    /\ pc' = "call"
    /\ UNCHANGED <<raised_by, package, namer, customer_data, replacements, sorted, idx, result, calls, previous, marks,
                   rescanned, applied, formatter>>

NextMap == PrepareReplacementsCall \/ ReadPart \/ ReplaceEnter \/ ReplaceLoop \/ ReplaceReturn

SpecMap == InitMap /\ [][NextMap]_vars

(***************************************************************************)
(* Claims about the replacement map (checked under SpecMap).               *)
(***************************************************************************)

\* C6 as stated: after substitution of a text made only of placeholder
\* literals of the map, the result holds no occurrence of any key whose
\* replacement value is not empty.
C6_NoPlaceholderLeft ==
    pc = "returned"
        => \A i \in 1..Len(replacements) :
              replacements[i][2] # "" => ~Occurs(result, replacements[i][1])

\* C6 amended: after substitution, no occurrence of a key whose replacement
\* value is not empty is made only of characters of the template text: every
\* such occurrence left in the result holds a character that a replacement
\* value wrote.
C6_NoOriginalPlaceholderLeft ==
    pc = "returned"
        => \A i \in 1..Len(replacements) :
              replacements[i][2] # ""
                  => \A p \in 1..Len(result) :
                        StartsAt(result, p, replacements[i][1])
                            => \E j \in p..(p + Len(replacements[i][1]) - 1) : marks[j] > 0

C6_Witness ==
    /\ pc = "returned"
    /\ customer_data = Sample
    /\ content = "THOMAS KALLEN CLAYCOMB"
    /\ result = "JOHN MICHAEL SMITH"

Ascii == " -.0123456789ABCDEFGHIJKLMNOPQRSTUVWXYZ_abcdefghijklmnopqrstuvwxyz"

Ord(ch) == CHOOSE i \in 1..Len(Ascii) : SubSeq(Ascii, i, i) = ch

\* a < b on Python str: the first place where they differ decides, and a
\* proper prefix is smaller
StrLess(a, b) ==
    LET shorter == IF Len(a) < Len(b) THEN Len(a) ELSE Len(b)
        differ == {k \in 1..shorter : SubSeq(a, k, k) # SubSeq(b, k, k)}
    IN  IF differ = {}
        THEN Len(a) < Len(b)
        ELSE LET first == CHOOSE k \in differ : \A j \in differ : k <= j
             IN  Ord(SubSeq(a, first, first)) < Ord(SubSeq(b, first, first))

\* The place of name i in the order os.listdir gave: no sort.
NameRankUnsorted(names, i) == i

\* The place of name i once sorted: after every smaller name
NameRank(names, i) ==
    Cardinality({j \in 1..Len(names) :
                    \/ StrLess(names[j], names[i])
                    \/ names[j] = names[i] /\ j <= i})

\* templates.sort()
sort(names) ==
    LET place == <<>> \o [i \in 1..Len(names) |-> NameRank(names, i)]
    IN  [k \in 1..Len(names) |-> names[CHOOSE i \in 1..Len(names) : place[i] = k]]

\* f.endswith(suffix)
endswith(f, suffix) ==
    Len(f) >= Len(suffix) /\ SubSeq(f, Len(f) - Len(suffix) + 1, Len(f)) = suffix

IsDocx(f) == endswith(f, ".docx")

\* [f for f in os.listdir(self.template_dir) if f.endswith('.docx')]
docx_names(names) == SelectSeq(names, IsDocx)

\* os.path.join(directory, name)
join(directory, name) == directory \o "/" \o name

\* customer_data.get('lastName', 'Customer')
last_name_of(data) == Get(data, "lastName", "Customer")

\* template_name.replace('_TKC', f'_{last_name}').replace('_JAD', f'_{last_name}')
output_name_of(template_name, data) ==
    str_replace(str_replace(template_name, "_TKC", "_" \o last_name_of(data)),
                "_JAD", "_" \o last_name_of(data))

\* docx_path.replace('.docx', '.pdf')
pdf_path_of(docx_path) == str_replace(docx_path, ".docx", ".pdf")

\* f'Treasury_Package_{last_name}_{doc_date}_COMPLETE.pdf' under output_dir
merged_pdf_of(data, dir) ==
    join(dir, "Treasury_Package_" \o last_name_of(data) \o "_"
                 \o Get(data, "documentDate", "undated") \o "_COMPLETE.pdf")

\* f'Treasury_Package_{last_name}_{doc_date}_Individual_PDFs.zip' under output_dir
zip_path_of(data, dir) ==
    join(dir, "Treasury_Package_" \o last_name_of(data) \o "_"
                 \o Get(data, "documentDate", "undated") \o "_Individual_PDFs.zip")

\* The file at path now holds what (a pair <<kind, template name>>)
WriteFile(files, path, what) ==
    [q \in DOMAIN files \cup {path} |-> IF q = path THEN what ELSE files[q]]

\* self.template_dir
TemplateDir == "/templates"

OutputDirs == {"/out", TemplateDir}

\* The names of a small template directory, in an order os.listdir can give
DirectoryPool ==
    <<"02_Notice.docx", "README.txt", "01_Affidavit_TKC.docx", "01_Affidavit_JAD.docx">>

\* The names of pool at the places in chosen, in their order there
Listed(pool, chosen) ==
    [k \in 1..Cardinality(chosen) |->
        pool[CHOOSE i \in chosen : Cardinality({j \in chosen : j <= i}) = k]]

\* The template directory is missing, or holds some names of DirectoryPool
Listings ==
    {[exists |-> TRUE, names |-> Listed(DirectoryPool, chosen)] :
        chosen \in SUBSET (1..Len(DirectoryPool))}
        \cup {[exists |-> FALSE, names |-> <<>>]}

\* A directory of five templates and another file, as os.listdir can give it
FiveTemplates ==
    [exists |-> TRUE,
     names |-> <<"03_Lien_TKC.docx", "README.txt", "01_Affidavit_TKC.docx", "04_Mandate.docx",
                 "01_Affidavit_JAD.docx", "02_Notice.docx">>]

\* The customers of the runs: the record of main(), a record without a last
\* name, and two records with a lien amount prepare_replacements fails on
PackageCustomers ==
    {Sample, Without(Sample, "lastName"), With(Sample, "lienAmount", "abc"),
     With(Sample, "lienAmount", "2000000000")}

\* The files of a template directory that holds names
TemplateFiles(names) ==
    [path \in {join(TemplateDir, names[i]) : i \in 1..Len(names)} |-> <<"template", path>>]

\* The PDFs an earlier run can have left in the directory (none in the
\* template directory, whose names are those of listing)
Leftovers(directory) ==
    IF directory = TemplateDir THEN {} ELSE {join(directory, "02_Notice.pdf")}

\* The files on disk before the call
FilesBefore(names, left) ==
    [path \in DOMAIN TemplateFiles(names) \cup left |->
        IF path \in left THEN <<"pdf", "earlier run">> ELSE TemplateFiles(names)[path]]

\* The calls: either entry point on any customer, output directory and
\* small template directory, and generate_package for the customer of main()
\* on the directory of five templates
Init ==
    /\ pc = "start"
    /\ raised_by = ""
    /\ \/ /\ entry_point \in {"generate_package", "generate_full_package"}
          /\ customer_data \in PackageCustomers
          /\ output_dir \in OutputDirs
          /\ listing \in Listings
       \/ /\ entry_point = "generate_package"
          /\ customer_data = Sample
          /\ output_dir = "/out"
          /\ listing = FiveTemplates
    /\ \E left \in SUBSET Leftovers(output_dir) : fs = FilesBefore(listing.names, left)
    /\ replacements = <<>>
    /\ templates = <<>>
    /\ template_idx = 0
    /\ output_path = ""
    /\ generated_files = <<>>
    /\ errors = <<>>
    /\ scratch = {}
    /\ attempts = <<>>
    /\ docx_idx = 0
    /\ pdf_files = <<>>
    /\ conversions = <<>>
    /\ ran = {}
    /\ package_result = <<>>
    /\ EngineIdle
    /\ NamerIdle
    /\ FormatterIdle

\* os.makedirs(output_dir, exist_ok=True): a directory that is there is no
\* error, and one that is missing is made (the template directory too, when
\* it is the output directory) or cannot be made.
MakeDirs ==
    /\ pc = "start"
    /\ \E made \in BOOLEAN :
          /\ (output_dir = TemplateDir /\ listing.exists) => made
          /\ IF made
             THEN /\ pc' = "prepare"
                  /\ listing' = IF output_dir = TemplateDir
                                THEN [listing EXCEPT !.exists = TRUE]
                                ELSE listing
                  /\ UNCHANGED raised_by
             ELSE pc' = "raised" /\ raised_by' = "os.makedirs" /\ UNCHANGED listing
    /\ UNCHANGED <<namer, customer_data, replacements, engine, formatter, entry_point, output_dir, fs,
                   templates, template_idx, output_path, generated_files, errors, scratch,
                   attempts, docx_idx, pdf_files, conversions, ran, package_result>>

\* templates = [f for f in os.listdir(self.template_dir) if f.endswith('.docx')]
\* templates.sort(); generated_files = []; errors = []
ListTemplates ==
    /\ pc = "prepared"
    /\ IF listing.exists
       THEN /\ templates' = sort(docx_names(listing.names))
            /\ template_idx' = 1
            /\ generated_files' = <<>>
            /\ errors' = <<>>
            /\ pc' = "template"
            /\ UNCHANGED raised_by
       ELSE /\ pc' = "raised"
            /\ raised_by' = "os.listdir"
            /\ UNCHANGED <<templates, template_idx, generated_files, errors>>
    /\ UNCHANGED <<namer, customer_data, replacements, engine, formatter, entry_point, output_dir,
                   listing, fs, output_path, scratch, attempts, docx_idx, pdf_files,
                   conversions, ran,
                   package_result>>

\* The head of the loop for one template: output_path, then the call of
\* process_docx_xml up to the creation of its scratch directory
StartTemplate ==
    /\ pc = "template"
    /\ template_idx <= Len(templates)
    /\ output_path' = join(output_dir, output_name_of(templates[template_idx], customer_data))
    /\ scratch' = scratch \cup {template_idx}
    /\ pc' = "extract"
    /\ UNCHANGED <<raised_by, namer, customer_data, replacements, engine, formatter, entry_point,
                   output_dir, listing, fs, templates, template_idx, generated_files, errors,
                   attempts, docx_idx, pdf_files, conversions, ran, package_result>>

template_path == join(TemplateDir, templates[template_idx])

\* The except branch after a process_docx_xml that made its scratch directory
\* with mkdtemp and no with block: the directory stays.
ExceptBranchLeaking(error) ==
    /\ scratch' = scratch
    /\ errors' = Append(errors, [file |-> templates[template_idx], error |-> error])
    /\ attempts' = Append(attempts, [template |-> templates[template_idx],
                                     output_path |-> output_path, ok |-> FALSE])
    /\ template_idx' = template_idx + 1
    /\ pc' = "template"
    /\ UNCHANGED generated_files

\* An exception leaves process_docx_xml: the scratch directory goes with the
\* with block, and the except branch of the loop records the template.
ExceptBranch(error) ==
    /\ scratch' = scratch \ {template_idx}
    /\ errors' = Append(errors, [file |-> templates[template_idx], error |-> error])
    /\ attempts' = Append(attempts, [template |-> templates[template_idx],
                                     output_path |-> output_path, ok |-> FALSE])
    /\ template_idx' = template_idx + 1
    /\ pc' = "template"
    /\ UNCHANGED generated_files

\* with zipfile.ZipFile(docx_path, 'r') as zf: zf.extractall(temp_dir)
Extract ==
    /\ pc = "extract"
    /\ \E opened \in BOOLEAN :
          /\ fs[template_path][1] = "partial" => ~opened
          /\ IF opened
             THEN /\ pc' = "parts"
                  /\ UNCHANGED <<template_idx, generated_files, errors, scratch, attempts>>
             ELSE ExceptBranch("open")
    /\ UNCHANGED <<raised_by, namer, customer_data, replacements, engine, formatter, entry_point,
                   output_dir, listing, fs, templates, output_path, docx_idx, pdf_files,
                   conversions, ran,
                   package_result>>

\* The loop over xml_files: read a part, substitute, write it back
RewriteParts ==
    /\ pc = "parts"
    /\ \E outcome \in {"done", "decode", "write"} :
          IF outcome = "done"
          THEN /\ pc' = "repack"
               /\ UNCHANGED <<template_idx, generated_files, errors, scratch, attempts>>
          ELSE ExceptBranch(outcome)
    /\ UNCHANGED <<raised_by, namer, customer_data, replacements, engine, formatter, entry_point,
                   output_dir, listing, fs, templates, output_path, docx_idx, pdf_files,
                   conversions, ran,
                   package_result>>

\* with zipfile.ZipFile(output_path, 'w', ...) as zf: ... zf.write(...), then
\* generated_files.append(output_path).  Opening for writing empties the file
\* at output_path, so a failure after it leaves a broken archive there.
Repack ==
    /\ pc = "repack"
    /\ \E outcome \in {"done", "create", "pack"} :
          /\ fs' = IF outcome = "create"
                   THEN fs
                   ELSE WriteFile(fs, output_path,
                                  <<IF outcome = "done" THEN "document" ELSE "partial",
                                    template_path>>)
          /\ IF outcome = "done"
             THEN /\ scratch' = scratch \ {template_idx}
                  /\ generated_files' = Append(generated_files, output_path)
                  /\ attempts' = Append(attempts, [template |-> templates[template_idx],
                                                   output_path |-> output_path, ok |-> TRUE])
                  /\ template_idx' = template_idx + 1
                  /\ pc' = "template"
                  /\ UNCHANGED errors
             ELSE ExceptBranch(outcome)
    /\ UNCHANGED <<raised_by, namer, customer_data, replacements, engine, formatter, entry_point,
                   output_dir, listing, templates, output_path, docx_idx, pdf_files,
                   conversions, ran,
                   package_result>>

\* return {'generated': ..., 'errors': ..., 'output_dir': ...}, to the caller
\* or to generate_full_package
GeneratePackageReturn ==
    /\ pc = "template"
    /\ template_idx > Len(templates)
    /\ package_result' = [generated |-> generated_files, errors |-> errors,
                          output_dir |-> output_dir]
    /\ pc' = IF entry_point = "generate_package" THEN "returned" ELSE "generated"
    /\ UNCHANGED <<raised_by, namer, customer_data, replacements, engine, formatter, entry_point,
                   output_dir, listing, fs, templates, template_idx, output_path,
                   generated_files, errors, scratch, attempts, docx_idx, pdf_files,
                   conversions, ran>>

\* generate_full_package after generate_package: if not result['generated']:
\* return result; otherwise convert_all_to_pdf starts with pdf_files = []
ConvertStart ==
    /\ pc = "generated"
    /\ IF package_result.generated = <<>>
       THEN pc' = "returned" /\ UNCHANGED <<docx_idx, pdf_files, conversions>>
       ELSE pc' = "convert" /\ docx_idx' = 1 /\ pdf_files' = <<>> /\ conversions' = <<>>
    /\ UNCHANGED <<ran, raised_by, namer, customer_data, replacements, engine, formatter, entry_point,
                   output_dir, listing, fs, templates, template_idx, output_path,
                   generated_files, errors, scratch, attempts, package_result>>

docx_path == package_result.generated[docx_idx]

\* One turn of the loop of convert_all_to_pdf.  subprocess.run raises when
\* the converter cannot be started; otherwise the converter writes the PDF
\* and exits with 0 ("converted"), exits with 0 and writes nothing
\* ("silent"), or exits with another status ("failed").
ConvertOne ==
    /\ pc = "convert"
    /\ docx_idx <= Len(package_result.generated)
    /\ \E outcome \in {"raise", "converted", "silent", "failed"} :
          IF outcome = "raise"
          THEN /\ pc' = "raised"
               /\ raised_by' = "subprocess.run"
               /\ UNCHANGED <<fs, docx_idx, pdf_files, conversions>>
          ELSE /\ fs' = IF outcome = "converted"
                        THEN WriteFile(fs, pdf_path_of(docx_path), <<"pdf", docx_path>>)
                        ELSE fs
               /\ pdf_files' = IF outcome # "failed" /\ pdf_path_of(docx_path) \in DOMAIN fs'
                               THEN Append(pdf_files, pdf_path_of(docx_path))
                               ELSE pdf_files
               /\ conversions' = Append(conversions, outcome)
               /\ docx_idx' = docx_idx + 1
               /\ UNCHANGED <<pc, raised_by>>
    /\ UNCHANGED <<namer, customer_data, replacements, engine, formatter, entry_point, output_dir,
                   listing, templates, template_idx, output_path, generated_files, errors,
                   scratch, attempts, ran, package_result>>

\* return pdf_files
ConvertReturn ==
    /\ pc = "convert"
    /\ docx_idx > Len(package_result.generated)
    /\ pc' = "merge"
    /\ UNCHANGED <<raised_by, namer, customer_data, replacements, engine, formatter, package>>

\* if pdf_files: self.merge_pdfs(pdf_files, merged_pdf).  A PDF that cannot
\* be read is skipped with a warning; the merged file that cannot be written
\* raises.
Merge ==
    /\ pc = "merge"
    /\ IF pdf_files = <<>>
       THEN pc' = "zip" /\ UNCHANGED <<raised_by, fs, ran>>
       ELSE \E written \in BOOLEAN :
               /\ ran' = ran \cup {"merge_pdfs"}
               /\ IF written
                  THEN /\ fs' = WriteFile(fs, merged_pdf_of(customer_data, output_dir),
                                          <<"merged", output_dir>>)
                       /\ pc' = "zip"
                       /\ UNCHANGED raised_by
                  ELSE pc' = "raised" /\ raised_by' = "merge_pdfs" /\ UNCHANGED fs
    /\ UNCHANGED <<namer, customer_data, replacements, engine, formatter, entry_point, output_dir,
                   listing, templates, template_idx, output_path, generated_files, errors,
                   scratch, attempts, docx_idx, pdf_files, conversions, package_result>>

\* if pdf_files: self.create_zip_package(pdf_files, zip_path)
Zip ==
    /\ pc = "zip"
    /\ IF pdf_files = <<>>
       THEN pc' = "full_return" /\ UNCHANGED <<raised_by, fs, ran>>
       ELSE \E written \in BOOLEAN :
               /\ ran' = ran \cup {"create_zip_package"}
               /\ IF written
                  THEN /\ fs' = WriteFile(fs, zip_path_of(customer_data, output_dir),
                                          <<"zip", output_dir>>)
                       /\ pc' = "full_return"
                       /\ UNCHANGED raised_by
                  ELSE pc' = "raised" /\ raised_by' = "create_zip_package" /\ UNCHANGED fs
    /\ UNCHANGED <<namer, customer_data, replacements, engine, formatter, entry_point, output_dir,
                   listing, templates, template_idx, output_path, generated_files, errors,
                   scratch, attempts, docx_idx, pdf_files, conversions, package_result>>

\* result['pdf_files'] = pdf_files; result['merged_pdf'] = merged_pdf;
\* result['zip_file'] = zip_path; return result
FullPackageReturn ==
    /\ pc = "full_return"
    /\ package_result' = [generated |-> package_result.generated,
                          errors |-> package_result.errors,
                          output_dir |-> package_result.output_dir,
                          pdf_files |-> pdf_files,
                          merged_pdf |-> merged_pdf_of(customer_data, output_dir),
                          zip_file |-> zip_path_of(customer_data, output_dir)]
    /\ pc' = "returned"
    /\ UNCHANGED <<raised_by, namer, customer_data, replacements, engine, formatter, entry_point,
                   output_dir, listing, fs, templates, template_idx, output_path,
                   generated_files, errors, scratch, attempts, docx_idx, pdf_files,
                   conversions, ran>>

Next ==
    \/ MakeDirs
    \/ PrepareReplacementsCall
    \/ ListTemplates
    \/ StartTemplate
    \/ Extract
    \/ RewriteParts
    \/ Repack
    \/ GeneratePackageReturn
    \/ ConvertStart
    \/ ConvertOne
    \/ ConvertReturn
    \/ Merge
    \/ Zip
    \/ FullPackageReturn

Spec == Init /\ [][Next]_vars

(***************************************************************************)
(* Claims about the run over the template directory (checked under Spec).  *)
(***************************************************************************)

\* generate_package has returned
PackageReturned ==
    pc \in {"returned", "generated", "convert", "merge", "zip", "full_return"}

IsOk(attempt) == attempt.ok

IsFailed(attempt) == ~attempt.ok

\* C1: generate_package attempts every template of the directory once, in
\* sorted order of the file names, whatever templates fail inside
\* process_docx_xml; the output paths of the templates that succeeded are
\* 'generated', the names of those that failed are the 'file' of 'errors',
\* each in the order of the attempts, and len(generated) + len(errors) is the
\* number of templates.
C1_EveryTemplateOnce ==
    PackageReturned =>
        LET N == Len(templates)
            succeeded == SelectSeq(attempts, IsOk)
            failed == SelectSeq(attempts, IsFailed)
        IN  /\ {templates[i] : i \in 1..N}
                  = {listing.names[i] : i \in {j \in 1..Len(listing.names) :
                                                  IsDocx(listing.names[j])}}
            /\ \A i, j \in 1..N : i < j => StrLess(templates[i], templates[j])
            /\ Len(attempts) = N
            /\ \A i \in 1..N : attempts[i].template = templates[i]
            /\ Len(package_result.generated) = Len(succeeded)
            /\ \A k \in 1..Len(succeeded) :
                  package_result.generated[k] = succeeded[k].output_path
            /\ Len(package_result.errors) = Len(failed)
            /\ \A k \in 1..Len(failed) : package_result.errors[k].file = failed[k].template
            /\ Len(package_result.generated) + Len(package_result.errors) = N

\* One failure among five templates, not the last one: 4 generated, 1 error
C1_Witness ==
    /\ pc = "returned"
    /\ entry_point = "generate_package"
    /\ Len(templates) = 5
    /\ Len(package_result.generated) = 4
    /\ Len(package_result.errors) = 1
    /\ package_result.errors[1].file = templates[2]
    /\ attempts[5].ok

\* C10 as stated: an exception leaves generate_package or
\* generate_full_package only when os.makedirs could not create the output
\* directory.
C10_RaisesOnlyOnMakedirs == pc = "raised" => raised_by = "os.makedirs"

\* C11 as stated: the PDFs that generate_full_package hands to merge_pdfs and
\* create_zip_package and returns as 'pdf_files' are those of the generated
\* documents whose conversion succeeded (exit status 0 and the PDF written),
\* in their order: a document whose conversion failed or wrote nothing is
\* left out.
C11_OnlyConverted ==
    pc \in {"merge", "zip", "full_return"}
        => LET done == {i \in 1..Len(conversions) : conversions[i] = "converted"}
           IN  /\ Len(pdf_files) = Cardinality(done)
               /\ \A k \in 1..Len(pdf_files) :
                     \E i \in done : pdf_files[k] = pdf_path_of(package_result.generated[i])

\* process_docx_xml is running
InProcessDocx == pc \in {"extract", "parts", "repack"}

\* C12: the scratch directory of a process_docx_xml call exists only while
\* that call runs: outside the call no scratch directory exists, whether the
\* call returned or raised at opening, decoding, writing or repacking, and
\* while a template is processed the only scratch directory is its own.
C12_ScratchReleased ==
    /\ ~InProcessDocx => scratch = {}
    /\ InProcessDocx => scratch = {template_idx}

\* Four templates failed, one at each step, and the fifth has started
C12_Witness ==
    /\ pc = "extract"
    /\ template_idx = 5
    /\ scratch = {5}
    /\ Len(errors) = 4
    /\ {errors[i].error : i \in 1..4} = {"open", "decode", "write", "pack"}

\* C13 as stated: whatever the output directory is (the template directory
\* included), every file of the template directory holds, during and after
\* the run, what it held before the run.
C13_TemplatesUntouched ==
    \A i \in 1..Len(listing.names) :
        fs[join(TemplateDir, listing.names[i])]
            = <<"template", join(TemplateDir, listing.names[i])>>

\* C15 as stated: within one run the paths of 'generated' are all different,
\* and the document written for a template is still at its output path
\* afterwards: no later template of the run has written over it.
C15_DistinctOutputPaths ==
    /\ \A i, j \in 1..Len(generated_files) :
          i # j => generated_files[i] # generated_files[j]
    /\ \A i \in 1..Len(attempts) :
          attempts[i].ok
              => fs[attempts[i].output_path]
                    = <<"document", join(TemplateDir, attempts[i].template)>>

\* C16 as stated: a 'merged_pdf' or a 'zip_file' path in the result of
\* generate_full_package means that merge_pdfs, or create_zip_package, was run
\* in the call and wrote the file at that path.
C16_ReportedFilesWereMade ==
    pc = "returned"
        => /\ "merged_pdf" \in DOMAIN package_result
                => /\ "merge_pdfs" \in ran
                   /\ package_result.merged_pdf \in DOMAIN fs
           /\ "zip_file" \in DOMAIN package_result
                => /\ "create_zip_package" \in ran
                   /\ package_result.zip_file \in DOMAIN fs

(***************************************************************************)
(* Claims about absent fields (checked under SpecMap).                     *)
(***************************************************************************)

\* The placeholder literals of the map whose value is computed from one field
\* of the record
FieldPlaceholders ==
    [ssn |-> {"493-74-8357", "493748357", "**493-74-8357**", "**493748357**",
              "#493-74-8357", "#493748357"},
     streetAddress |-> {"6316 East 113th Avenue", "c/o 6316 East 113th Avenue",
                        "6316 EAST 113TH AVENUE"},
     city |-> {"Temple Terrace", "TEMPLE TERRACE"},
     state |-> {"Florida", "FLORIDA", "Florida Republic", "Florida State"},
     zipCode |-> {"33617", "[33617]", "near [33617]"},
     county |-> {"Hillsborough", "HILLSBOROUGH", "Hillsborough County",
                 "HILLSBOROUGH COUNTY"}]

\* C14 as stated: for a field that is absent from the record, every entry of
\* the map computed from that field has an empty value, and a text made of a
\* placeholder literal of that field comes out of replace_text_in_file as it
\* went in.
C14_AbsentFieldUntouched ==
    pc = "returned"
        => \A f \in DOMAIN FieldPlaceholders \ DOMAIN customer_data :
              /\ \A i \in 1..Len(replacements) :
                    replacements[i][1] \in FieldPlaceholders[f] => replacements[i][2] = ""
              /\ (\E key \in FieldPlaceholders[f] :
                     \E k \in 1..MaxRepeats : content = Repeated(key, k))
                    => result = content

(***************************************************************************)
(* name_variations.py: the spellings of a name.  A dict is a sequence of   *)
(* <<key, value>> pairs with distinct keys; a value is Str(s) for the      *)
(* string s, or None.  The copyright sign is written (c).                  *)
(***************************************************************************)
Str(s) == <<"str", s>>
None == <<"None">>
IsNone(v) == v[1] = "None"

\* s.rstrip(ch)
RECURSIVE rstrip(_, _)
rstrip(s, ch) ==
    IF s # "" /\ SubSeq(s, Len(s), Len(s)) = ch THEN rstrip(SubSeq(s, 1, Len(s) - 1), ch) ELSE s

\* The dict literal of generate_all_name_variations, None values included
all_entries(first, middle, last, suffix) ==
    LET f_init == Upper(Prefix(first, 1))
        m_init == Upper(Prefix(middle, 1))
        l_init == Upper(Prefix(last, 1))
        suffix_upper == Upper(suffix)
        suffix_part == IF suffix # "" THEN " " \o suffix ELSE ""
        suffix_part_upper == IF suffix # "" THEN " " \o suffix_upper ELSE ""
    IN  <<
           <<"debtor_variations", <<
              <<"FULL_CAPS",
                  Str(Strip(Upper(first) \o " " \o Upper(middle) \o " " \o Upper(last) \o suffix_part_upper))>>,
              <<"CAPS_NO_MIDDLE", Str(Upper(first) \o " " \o Upper(last) \o suffix_part_upper)>>,
              <<"CAPS_MIDDLE_INIT",
                  Str(str_replace(Upper(first) \o " " \o m_init \o " " \o Upper(last) \o suffix_part_upper, "  ", " "))>>,
              <<"CAPS_FIRST_INIT", IF middle # ""
                                   THEN Str(Strip(f_init \o " " \o Upper(middle) \o " " \o Upper(last) \o suffix_part_upper))
                                   ELSE None>>,
              <<"CAPS_INIT_LAST", Str(f_init \o " " \o Upper(last) \o suffix_part_upper)>>,
              <<"CAPS_REVERSED", IF middle # ""
                                 THEN Str(Strip(Upper(middle) \o " " \o Upper(first) \o " " \o Upper(last) \o suffix_part_upper))
                                 ELSE None>>,
              <<"INITIALS_TWO", Str(f_init \o l_init)>>,
              <<"INITIALS_THREE", IF middle # "" THEN Str(f_init \o m_init \o l_init)
                                  ELSE Str(f_init \o l_init)>>,
              <<"CAPS_TWO_INIT_LAST", IF middle # ""
                                      THEN Str(f_init \o m_init \o " " \o Upper(last) \o suffix_part_upper)
                                      ELSE Str(f_init \o " " \o Upper(last) \o suffix_part_upper)>>,
              <<"CAPS_LAST_ONLY", Str(Upper(last))>>,
              <<"CAPS_FIRST_LAST_INIT", Str(Upper(first) \o " " \o l_init)>>,
              <<"CAPS_COMMA",
                  Str(rstrip(Strip(Upper(last) \o ", " \o Upper(first) \o " " \o Upper(middle)), ","))>>,
              <<"CAPS_COMMA_INIT", IF middle # ""
                                   THEN Str(rstrip(Strip(Upper(last) \o ", " \o Upper(first) \o " " \o m_init), ","))
                                   ELSE Str(Upper(last) \o ", " \o Upper(first))>>
           >> >>,
           <<"creditor_variations", <<
              <<"STYLED_FULL", IF middle # ""
                               THEN Str(first \o "-" \o middle \o ": " \o last \o suffix_part)
                               ELSE Str(first \o ": " \o last \o suffix_part)>>,
              <<"MIXED_FULL", Str(Strip(first \o " " \o middle \o " " \o last \o suffix_part))>>,
              <<"MIXED_NO_MIDDLE", Str(first \o " " \o last \o suffix_part)>>,
              <<"MIXED_MIDDLE_INIT", IF middle # ""
                                     THEN Str(str_replace(first \o " " \o m_init \o ". " \o last \o suffix_part, " . ", " "))
                                     ELSE Str(first \o " " \o last \o suffix_part)>>,
              <<"MIXED_FIRST_INIT", IF middle # ""
                                    THEN Str(f_init \o " " \o middle \o " " \o last \o suffix_part)
                                    ELSE None>>,
              <<"MIXED_DOTTED_INIT", IF middle # ""
                                     THEN Str(f_init \o "." \o m_init \o ". " \o last \o suffix_part)
                                     ELSE Str(f_init \o ". " \o last \o suffix_part)>>,
              <<"MIXED_SIMPLE", Str(first \o " " \o last)>>,
              <<"MIXED_INIT_PERIOD", IF middle # ""
                                     THEN Str(f_init \o ". " \o middle \o " " \o last \o suffix_part)
                                     ELSE Str(f_init \o ". " \o last \o suffix_part)>>
           >> >>,
           <<"trust_variations", <<
              <<"TRUST_FULL",
                  Str(Strip(Upper(first) \o " " \o Upper(middle) \o " " \o Upper(last) \o " TRUST"))>>,
              <<"TRUST_COPYRIGHT",
                  Str(Strip(Upper(first) \o " " \o Upper(middle) \o " " \o Upper(last) \o " TRUST(c)"))>>,
              <<"TRUST_INITIALS", IF middle # "" THEN Str(f_init \o m_init \o l_init \o " TRUST")
                                  ELSE Str(f_init \o l_init \o " TRUST")>>
           >> >>,
           <<"copyright_variations", <<
              <<"COPYRIGHT_FULL",
                  Str(Strip(Upper(first) \o " " \o Upper(middle) \o " " \o Upper(last) \o "(c)"))>>,
              <<"QUOTED_CAPS",
                  Str(Strip("\"" \o Upper(first) \o " " \o Upper(middle) \o " " \o Upper(last) \o "\""))>>,
              <<"QUOTED_STYLED", IF middle # ""
                                 THEN Str("'" \o first \o "-" \o middle \o ": " \o last \o "'")
                                 ELSE Str("'" \o first \o ": " \o last \o "'")>>
           >> >>,
           <<"special_formats", <<
              <<"FREE_MAN", IF middle # ""
                            THEN Str("one " \o first \o "-" \o middle \o ": " \o last \o ", Free man")
                            ELSE Str("one " \o first \o ": " \o last \o ", Free man")>>,
              <<"ATTORNEY_IN_FACT", IF middle # ""
                                    THEN Str(first \o "-" \o middle \o ": " \o last \o ", Attorney in Fact")
                                    ELSE Str(first \o ": " \o last \o ", Attorney in Fact")>>,
              <<"SECURED_PARTY", IF middle # ""
                                 THEN Str(first \o "-" \o middle \o ": " \o last \o ", Secured Party Creditor")
                                 ELSE Str(first \o ": " \o last \o ", Secured Party Creditor")>>,
              <<"THIRD_PARTY", IF middle # ""
                               THEN Str(first \o "-" \o middle \o ": " \o last \o ", Third Party Interest Intervener")
                               ELSE Str(first \o ": " \o last \o ", Third Party Interest Intervener")>>,
              <<"BAILOR", IF middle # ""
                          THEN Str(first \o "-" \o middle \o ": " \o last \o ", Bailor")
                          ELSE Str(first \o ": " \o last \o ", Bailor")>>,
              <<"BAILEE",
                  Str(Strip(Upper(first) \o " " \o Upper(middle) \o " " \o Upper(last) \o ", BAILEE"))>>,
              <<"AGENT", IF middle # ""
                         THEN Str(first \o "-" \o middle \o ": " \o last \o ", Agent")
                         ELSE Str(first \o ": " \o last \o ", Agent")>>,
              <<"BENEFICIARY", IF middle # ""
                               THEN Str(first \o "-" \o middle \o ": " \o last \o ", Beneficiary")
                               ELSE Str(first \o ": " \o last \o ", Beneficiary")>>,
              <<"PRINCIPAL", IF middle # ""
                             THEN Str(first \o "-" \o middle \o ": " \o last \o ", Principal")
                             ELSE Str(first \o ": " \o last \o ", Principal")>>,
              <<"GRANTOR",
                  Str(Strip(Upper(first) \o " " \o Upper(middle) \o " " \o Upper(last) \o ", GRANTOR"))>>,
              <<"INDEMNITEE", IF middle # ""
                              THEN Str(first \o "-" \o middle \o ": " \o last \o ", Indemnitee")
                              ELSE Str(first \o ": " \o last \o ", Indemnitee")>>,
              <<"INDEMNITOR",
                  Str(Strip(Upper(first) \o " " \o Upper(middle) \o " " \o Upper(last) \o ", INDEMNITOR"))>>
           >> >>,
           <<"address_formats", <<
              <<"C_O_STYLED", IF middle # ""
                              THEN Str("c/o " \o first \o "-" \o middle \o ": " \o last)
                              ELSE Str("c/o " \o first \o ": " \o last)>>,
              <<"ATTN_CAPS",
                  Str(Strip("ATTN: " \o Upper(first) \o " " \o Upper(middle) \o " " \o Upper(last)))>>
           >> >>,
           <<"reference_codes", <<
              <<"CODE_THREE", IF middle # "" THEN Str(f_init \o m_init \o l_init)
                              ELSE Str(f_init \o l_init)>>,
              <<"CODE_TWO", Str(f_init \o l_init)>>,
              <<"FILE_PREFIX", IF middle # "" THEN Str(f_init \o m_init \o l_init)
                               ELSE Str(f_init \o l_init)>>
           >> >>,
           <<"additional_variations", <<
              <<"DBA_CAPS",
                  Str(Strip(Upper(first) \o " " \o Upper(middle) \o " " \o Upper(last)))>>,
              <<"AKA_CAPS",
                  Str(Strip(Upper(first) \o " " \o Upper(middle) \o " " \o Upper(last)))>>,
              <<"ENS_LEGIS",
                  Str(Strip(Upper(first) \o " " \o Upper(middle) \o " " \o Upper(last) \o ", Ens legis"))>>,
              <<"LIVING_SOUL", IF middle # ""
                               THEN Str(first \o "-" \o middle \o ": " \o last \o ", a Living Soul")
                               ELSE Str(first \o ": " \o last \o ", a Living Soul")>>,
              <<"NATURAL_MAN", IF middle # ""
                               THEN Str(first \o "-" \o middle \o ": " \o last \o ", a Natural Man")
                               ELSE Str(first \o ": " \o last \o ", a Natural Man")>>,
              <<"FLESH_BLOOD", IF middle # ""
                               THEN Str(first \o "-" \o middle \o ": " \o last \o ", a living, flesh-and-blood man")
                               ELSE Str(first \o ": " \o last \o ", a living, flesh-and-blood man")>>,
              <<"AUTH_REP", IF middle # ""
                            THEN Str(first \o "-" \o middle \o ": " \o last \o ", Authorized Representative")
                            ELSE Str(first \o ": " \o last \o ", Authorized Representative")>>,
              <<"HOLDER_DUE_COURSE", IF middle # ""
                                     THEN Str(first \o "-" \o middle \o ": " \o last \o ", Holder in Due Course")
                                     ELSE Str(first \o ": " \o last \o ", Holder in Due Course")>>,
              <<"EXECUTOR", IF middle # ""
                            THEN Str(first \o "-" \o middle \o ": " \o last \o ", Executor")
                            ELSE Str(first \o ": " \o last \o ", Executor")>>,
              <<"SETTLOR", IF middle # ""
                           THEN Str(first \o "-" \o middle \o ": " \o last \o ", Settlor")
                           ELSE Str(first \o ": " \o last \o ", Settlor")>>,
              <<"TRUSTEE", IF middle # ""
                           THEN Str(first \o "-" \o middle \o ": " \o last \o ", Trustee")
                           ELSE Str(first \o ": " \o last \o ", Trustee")>>,
              <<"PRIVATE_TRUST", IF middle # ""
                                 THEN Str(first \o "-" \o middle \o ": " \o last \o " Secured Party Private Contract Trust")
                                 ELSE Str(first \o ": " \o last \o " Secured Party Private Contract Trust")>>,
              <<"REAL_PARTY", IF middle # ""
                              THEN Str(first \o "-" \o middle \o ": " \o last \o ", a Real Party in Interest")
                              ELSE Str(first \o ": " \o last \o ", a Real Party in Interest")>>,
              <<"TRANSMITTING_UTILITY",
                  Str(Strip(Upper(first) \o " " \o Upper(middle) \o " " \o Upper(last)))>>,
              <<"PERSONAM_SOJOURN", IF middle # ""
                                    THEN Str(first \o "-" \o middle \o ": " \o last \o ", Personam Sojourn")
                                    ELSE Str(first \o ": " \o last \o ", Personam Sojourn")>>,
              <<"STATE_NATIONAL", IF middle # ""
                                  THEN Str(first \o "-" \o middle \o ": " \o last \o ", American State National")
                                  ELSE Str(first \o ": " \o last \o ", American State National")>>,
              <<"NON_DOMESTIC", IF middle # ""
                                THEN Str(first \o "-" \o middle \o ": " \o last \o ", Non-Domestic")
                                ELSE Str(first \o ": " \o last \o ", Non-Domestic")>>,
              <<"CREDITOR_BAILOR", IF middle # ""
                                   THEN Str(first \o "-" \o middle \o ": " \o last \o ", Creditor/Bailor")
                                   ELSE Str(first \o ": " \o last \o ", Creditor/Bailor")>>,
              <<"DEBTOR_BAILEE",
                  Str(Strip(Upper(first) \o " " \o Upper(middle) \o " " \o Upper(last) \o ", DEBTOR/BAILEE"))>>,
              <<"FOR_DEBTOR",
                  Str(Strip("For: " \o Upper(first) \o " " \o Upper(middle) \o " " \o Upper(last) \o ", DEBTOR"))>>,
              <<"BY_STYLED", IF middle # ""
                             THEN Str("By: " \o first \o "-" \o middle \o ": " \o last)
                             ELSE Str("By: " \o first \o ": " \o last)>>,
              <<"ESTATE",
                  Str(Strip("[" \o Upper(first) \o " " \o Upper(middle) \o " " \o Upper(last) \o "] ESTATE"))>>
           >> >>
        >>

\* {k: v for k, v in variations[category].items() if v is not None}
without_none(items) == SelectSeq(items, LAMBDA item : ~IsNone(item[2]))

generate_all_name_variations(first, middle, last, suffix) ==
    LET dict == all_entries(Strip(first), Strip(middle), Strip(last), Strip(suffix))
    IN  [c \in 1..Len(dict) |-> <<dict[c][1], without_none(dict[c][2])>>]

\* d.update(items): a key already in d keeps its place and takes the new
\* value, a new key goes to the end
update(d, items) ==
    LET both == d \o items
        same(i) == {j \in 1..Len(both) : both[j][1] = both[i][1]}
        Least(S) == CHOOSE i \in S : \A j \in S : i <= j
        Most(S) == CHOOSE i \in S : \A j \in S : j <= i
        places == SelectSeq([i \in 1..Len(both) |-> i], LAMBDA i : i = Least(same(i)))
    IN  <<>> \o [n \in 1..Len(places) |->
                    <<both[places[n]][1], both[Most(same(places[n]))][2]>>]

RECURSIVE flatten(_, _)
flatten(all_vars, done) ==
    IF all_vars = <<>> THEN done
    ELSE flatten(Tail(all_vars), update(done, Head(all_vars)[2]))

get_flat_variations(first, middle, last, suffix) ==
    flatten(generate_all_name_variations(first, middle, last, suffix), <<>>)

FirstNames == {"John", " Mary "}
MiddleNames == {"", " ", "Michael", "q"}
LastNames == {"Smith", "O Neil"}
Suffixes == {"", "Jr", " III "}

InitNames ==
    /\ pc \in {"call_names", "call_flat"}
    /\ name_args \in [first : FirstNames, middle : MiddleNames, last : LastNames,
                      suffix : Suffixes]
    /\ variations = <<>>
    /\ flat = <<>>
    /\ customer_data = NoFields
    /\ replacements = <<>>
    /\ EngineIdle
    /\ FormatterIdle
    /\ PackageIdle

GenerateAllNameVariationsCall ==
    /\ pc = "call_names"
    /\ variations' = generate_all_name_variations(name_args.first, name_args.middle,
                                                  name_args.last, name_args.suffix)
    /\ pc' = "returned_names"
    /\ UNCHANGED <<raised_by, customer_data, replacements, engine, formatter, package,
                   name_args, flat>>

GetFlatVariationsCall ==
    /\ pc = "call_flat"
    /\ flat' = get_flat_variations(name_args.first, name_args.middle, name_args.last,
                                   name_args.suffix)
    /\ pc' = "returned_flat"
    /\ UNCHANGED <<raised_by, customer_data, replacements, engine, formatter, package,
                   name_args, variations>>

NextNames == GenerateAllNameVariationsCall \/ GetFlatVariationsCall

SpecNames == InitNames /\ [][NextNames]_vars

\* The values handed back: those of every category, or those of the flat dict
ReturnedValues ==
    IF pc = "returned_names"
    THEN UNION {{variations[c][2][i][2] : i \in 1..Len(variations[c][2])} :
                  c \in 1..Len(variations)}
    ELSE IF pc = "returned_flat" THEN {flat[i][2] : i \in 1..Len(flat)}
    ELSE {}

\* s is a string with no two blanks in a row and no blank at either end
Tidy(v) ==
    /\ ~IsNone(v)
    /\ ~Occurs(v[2], "  ")
    /\ Strip(v[2]) = v[2]

\* C17: for a non-empty first and last name and any middle name and suffix,
\* each possibly empty, every value that generate_all_name_variations and
\* get_flat_variations return is a string, never None, with no two
\* consecutive spaces and no leading or trailing space.
C17_ValuesAreTidy ==
    (Strip(name_args.first) # "" /\ Strip(name_args.last) # "")
        => \A v \in ReturnedValues : Tidy(v)

====
